---- MODULE Spec2Model ----
(***************************************************************************)
(* Model of printer_power_manager_standalone.py: the outage-window         *)
(* evaluator (DTEKOutageManager), the printer commands (MoonrakerClient)   *)
(* and the pause/resume state machine with its polling loop                *)
(* (PrinterPowerManager).                                                  *)
(*                                                                         *)
(* Units.  The wall clock `now` counts seconds since 00:00:00 of the day   *)
(* the daemon was started (datetime.now() at one-second resolution).       *)
(* The code keeps interval bounds, the pause point and current_hour as     *)
(* fractional hours in binary64 floats; the model keeps the same           *)
(* quantities multiplied by 60, as whole minutes, and states separately    *)
(* (RoundsAboveOne, PausePointRoundsUp, EndRoundsUp, LabelMinute) where    *)
(* the float evaluation of the source expressions differs from the exact   *)
(* value for the interval bounds that occur in Feeds.                      *)
(***************************************************************************)
EXTENDS Integers, Sequences, FiniteSets

VARIABLES now, pc, polls, outages, last_update, next_update,
          is_paused, pause_start_time, current_outage, ev, parse

vars == <<now, pc, polls, outages, last_update, next_update,
          is_paused, pause_start_time, current_outage, ev, parse>>

\* ---------------------------------------------------------------- constants
CHECK_INTERVAL == 60

WAIT_BEFORE == 5

WAIT_AFTER == 10

\* time.sleep(1) between the PAUSE command and the park command
PauseSettle == 1

\* time.sleep(2) between the heat-up command and the RESUME command
ResumeSettle == 2

\* ------------------------------------------------------------------- bounds
\* number of loop iterations of run_daemon that are explored
MaxPolls == 18

\* longest list of raw slots given to _parse_slots
MaxSlots == 3

\* number of invocations with the argument once that are explored
MaxRuns == 6

\* Seconds a request may take before it returns, with success or failure.
\* A script that sets a heater or resumes has a timeout of 90 seconds; PAUSE
\* (timeout 15) and the schedule request (timeout 10) are taken as answered
\* within the second.
Latency == {0, 59}

ShortLatency == {0}

DaySecs == 24 * 3600

\* wall-clock times at which the daemon is started
StartTimes == { 15 * 3600 + 50 * 60,
                15 * 3600 + 53 * 60 + 30,
                16 * 3600 + 52 * 60,
                 1 * 3600 + 39 * 60,
                22 * 3600 + 49 * 60,
                23 * 3600 + 24 * 60,
                23 * 3600 + 53 * 60 + 30 }

\* None for a time or a number of minutes; None for a window name
None == -1

NoWindow == <<>>

\* ------------------------------------------------------------ the schedule
\* What _parse_slots yields for the answers the schedule service may give:
\* per period the list of Definite intervals <<start, end>>, in minutes
\* (start_minutes / 60 and end_minutes / 60 hours in the code).
FeedA == [today |-> << <<960, 1140>> >>, tomorrow |-> << <<0, 120>> >>]

FeedB == [today |-> << <<1410, 1440>> >>, tomorrow |-> << >>]

FeedC == [today |-> << <<960, 990>>, <<1020, 1140>> >>,
          tomorrow |-> << <<0, 120>> >>]

FeedD == [today |-> << <<60, 100>>, <<120, 180>>, <<1320, 1410>> >>,
          tomorrow |-> << >>]

Feeds == {FeedA, FeedB, FeedC, FeedD}

\* ------------------------------------------------------------ _parse_slots
\* Raw slot records of an answer: dicts that may lack a key.
RawSlots ==
    { [type |-> "Definite", start |-> 960, end |-> 1140],
      [type |-> "Possible", start |-> 990, end |-> 1020],
      [type |-> "Definite", start |-> 0, end |-> 120],
      [type |-> "Definite", end |-> 60],
      [start |-> 60, end |-> 120] }

\* slot.get(key, default)
SlotGet(slot, key, default) ==
    IF key \in DOMAIN slot THEN slot[key] ELSE default

\* minutes / 60: a number of hours, kept as the fraction num / den
Hours(minutes) == [num |-> minutes, den |-> 60]

\* mutant: the type of a slot is not looked at
KeepSlot_Any(slot) == TRUE

\* if slot.get("type") == "Definite"
KeepSlot(slot) == SlotGet(slot, "type", "None") = "Definite"

\* the for loop of _parse_slots from index i on, outs being the list so far
RECURSIVE ParseFrom(_, _, _)
ParseFrom(slots, i, outs) ==
    IF i > Len(slots) THEN outs
    ELSE IF KeepSlot(slots[i])
         THEN ParseFrom(slots, i + 1,
                        Append(outs, << Hours(SlotGet(slots[i], "start", 0)),
                                        Hours(SlotGet(slots[i], "end", 0)) >>))
         ELSE ParseFrom(slots, i + 1, outs)

ParseSlots(slots) == ParseFrom(slots, 1, << >>)

\* the lists of at most n raw slots
RECURSIVE SlotLists(_)
SlotLists(n) ==
    IF n = 0 THEN { << >> }
    ELSE SlotLists(n - 1)
            \cup { Append(l, x) : l \in { m \in SlotLists(n - 1) :
                                            Len(m) = n - 1 },
                                  x \in RawSlots }

\* a call of _parse_slots: its argument, whether it has returned, its result
NoParse == [slots |-> << >>, done |-> FALSE, result |-> << >>]

\* self.outages = {} : no period has a list yet
EmptyOutages == [p \in {} |-> << >>]

\* self.outages.get(period, [])
OutagesGet(outs, period) ==
    IF period \in DOMAIN outs THEN outs[period] ELSE << >>

\* ------------------------------------------------------------- wall clock
Hour(t) == (t % DaySecs) \div 3600

Minute(t) == ((t % DaySecs) % 3600) \div 60

\* current_hour = now.hour + now.minute / 60, times 60: seconds are dropped
CurrentMinute(t) == Hour(t) * 60 + Minute(t)

GetCurrentPeriod(t) == IF Hour(t) = 23 THEN "tomorrow" ELSE "today"

\* mutant: the day is not advanced
GetNextMidnight_Today(t) == (t \div DaySecs) * DaySecs

\* tomorrow.replace(hour=0, minute=0, second=0, microsecond=0)
GetNextMidnight(t) == ((t \div DaySecs) + 1) * DaySecs

\* ------------------------------------------------- binary64 rounding facts
\* Interval starts (minutes) for which, one whole minute before the pause
\* point, the float value of (pause_point - current_hour) * 60 is above 1.0
\* (1.0000000000000098 for 02:00, 1.0000000000001563 for the others); for
\* the other starts of Feeds it is below 1.0 (0.9999999999999432 for 16:00).
RoundsAboveOne == {120, 1020, 1320, 1410}

\* Interval starts for which, exactly at the pause point, the float test
\* current_hour < pause_point is still true.
PausePointRoundsUp == {120}

\* Interval ends for which, exactly at the end, the float test
\* current_hour < end is still true (01:40: 1 + 40/60 is below 100/60).
EndRoundsUp == {100}

\* int((x % 1) * 60) for x = m / 60: the minute shown in a window name
\* (exact for every bound of Feeds).
LabelMinute(m) == m % 60

\* f"{int(start):02d}:{int((start % 1) * 60):02d}-{int(end):02d}:..."
WindowName(start, end) ==
    <<start \div 60, LabelMinute(start), end \div 60, LabelMinute(end)>>

\* ------------------------------------------------------- window evaluator
\* current_hour < pause_point
BeforePausePoint(cm, start) ==
    \/ cm < start - WAIT_BEFORE
    \/ cm = start - WAIT_BEFORE /\ start \in PausePointRoundsUp

\* mutant: < instead of <=
Imminent_Strict(cm, start) == (start - WAIT_BEFORE) - cm < 1

\* minutes_until_pause <= 1.0, for current_hour < pause_point
Imminent(cm, start) ==
    LET m == (start - WAIT_BEFORE) - cm
    IN  \/ m < 1
        \/ m = 1 /\ start \notin RoundsAboveOne

\* current_hour < end
BeforeEnd(cm, end) ==
    \/ cm < end
    \/ cm = end /\ end \in EndRoundsUp

Signal(act, window, minutes) ==
    [must_act |-> act, window |-> window, minutes |-> minutes]

\* the for loop of get_next_danger_window, from index i on
RECURSIVE ScanWindows(_, _, _)
ScanWindows(list, i, cm) ==
    IF i > Len(list) THEN Signal(FALSE, NoWindow, None)
    ELSE LET start == list[i][1]
             end   == list[i][2]
         IN  IF BeforePausePoint(cm, start)
             THEN IF Imminent(cm, start)
                  THEN Signal(TRUE, WindowName(start, end),
                              (start - WAIT_BEFORE) - cm)
                  ELSE Signal(FALSE, NoWindow, None)
             ELSE IF BeforeEnd(cm, end)
                  THEN Signal(TRUE, WindowName(start, end), end - cm)
                  ELSE ScanWindows(list, i + 1, cm)

GetNextDangerWindow(outs, t) ==
    ScanWindows(OutagesGet(outs, GetCurrentPeriod(t)), 1, CurrentMinute(t))

\* --------------------------------------------------------- initial state
\* The pause session: is_paused, pause_start_time, current_outage
Session(paused, start, outage) ==
    [paused |-> paused, start |-> start, outage |-> outage]

\* What the last evaluation did (a record of the run, not program state):
\* when it ran, the evaluator's signal, the session before it, the commands
\* it sent, whether the schedule was fetched just before it, and of the
\* evaluation before it: which command, if any, failed, the time at which it
\* resumed with success (or None) and whether its PAUSE succeeded.
NoEval == [at |-> None, sig |-> Signal(FALSE, NoWindow, None),
           pre |-> Session(FALSE, None, NoWindow),
           cmds |-> << >>, fetched |-> "no", prev_fail |-> "none",
           prev_resume |-> None, prev_pause |-> FALSE]

\* PrinterPowerManager.__init__ and DTEKOutageManager.__init__
Init ==
    /\ now \in StartTimes
    /\ pc = "start"
    /\ polls = 0
    /\ outages = EmptyOutages
    /\ last_update = None
    /\ next_update = None
    /\ is_paused = FALSE
    /\ pause_start_time = None
    /\ current_outage = NoWindow
    /\ ev = NoEval
    /\ parse = NoParse

\* ------------------------------------------------------------ operations
\* One command sent by _call_script, with the session as it was when the
\* command was sent.
Cmd(name, ok, session) == [cmd |-> name, ok |-> ok, session |-> session]

\* fetch_outages: a successful answer replaces outages and last_update; a
\* failure (the request raises, an HTTP error status, a body that is not
\* JSON, a slot that cannot be parsed, the group missing from the answer)
\* returns before either is assigned.
FetchResult ==
    {[ok |-> TRUE, data |-> f] : f \in Feeds}
        \cup {[ok |-> FALSE, data |-> [today |-> << >>, tomorrow |-> << >>]]}

\* mutant: the schedule is emptied before the request is made
FetchedOutages_Cleared(res) == IF res.ok THEN res.data ELSE EmptyOutages

FetchedOutages(res) == IF res.ok THEN res.data ELSE outages

FetchedLastUpdate(res, t) == IF res.ok THEN t ELSE last_update

\* run_daemon before the loop: update_outages(), next_update
DaemonStart ==
    /\ pc = "start"
    /\ \E res \in FetchResult, lat \in ShortLatency :
         /\ outages' = FetchedOutages(res)
         /\ last_update' = FetchedLastUpdate(res, now + lat)
         /\ now' = now + lat
         /\ next_update' = GetNextMidnight(now + lat)
         /\ ev' = [NoEval EXCEPT !.fetched = IF res.ok THEN "ok" ELSE "failed"]
    /\ pc' = "loop"
    /\ UNCHANGED <<polls, is_paused, pause_start_time, current_outage, parse>>

\* mutant: the test of is_paused is missing
ShouldPause_NoStateTest(act, paused) == act

\* if is_approaching and not self.is_paused
ShouldPause(act, paused) == act /\ ~paused

\* mutant: > instead of >=
WaitOver_Strict(t, started) == (t - started) > WAIT_AFTER * 60

\* mutant: the seconds are not converted to minutes
WaitOver_Seconds(t, started) == (t - started) >= WAIT_AFTER

\* time_paused >= WAIT_AFTER, time_paused = total_seconds() / 60
WaitOver(t, started) == (t - started) >= WAIT_AFTER * 60

\* mutant: the session is set whether or not PAUSE succeeded
AfterPause_Unchecked(ok, cur, t, window) == Session(TRUE, t, window)

\* if self.moonraker.pause_print(): the session is set, at time t
AfterPause(ok, cur, t, window) ==
    IF ok THEN Session(TRUE, t, window) ELSE cur

\* mutant: a failed park command undoes the pause
AfterPark_RollBack(ok, cur) ==
    IF ok THEN cur ELSE Session(FALSE, None, NoWindow)

\* self.moonraker.set_heaters_off(): its result is not looked at
AfterPark(ok, cur) == cur

\* mutant: a failed resume restarts the wait
AfterResume_ResetTimer(ok, cur, t) ==
    IF ok THEN Session(FALSE, None, NoWindow)
          ELSE Session(cur.paused, t, cur.outage)

\* mutant: a resume that succeeded leaves the session as it was
AfterResume_KeepPaused(ok, cur, t) == cur

\* mutant: a resume that succeeded clears is_paused alone
AfterResume_FlagOnly(ok, cur, t) ==
    IF ok THEN Session(FALSE, cur.start, cur.outage) ELSE cur

\* if self.moonraker.resume_print(): the session is cleared
AfterResume(ok, cur, t) ==
    IF ok THEN Session(FALSE, None, NoWindow) ELSE cur

\* mutant: RESUME is sent whatever the heat-up command returned
ResumePrint_IgnoreHeat(heatOk, resumeOk, cur, t, l1, l2) ==
    [ok |-> resumeOk,
     cmds |-> << Cmd("HEAT", heatOk, cur), Cmd("RESUME", resumeOk, cur) >>,
     done |-> t + l1 + ResumeSettle + l2]

\* resume_print: the heat-up command, time.sleep(2), the RESUME command;
\* RESUME is not sent when the heat-up command failed.
ResumePrint(heatOk, resumeOk, cur, t, l1, l2) ==
    IF ~heatOk
    THEN [ok |-> FALSE, cmds |-> << Cmd("HEAT", FALSE, cur) >>,
          done |-> t + l1]
    ELSE [ok |-> resumeOk,
          cmds |-> << Cmd("HEAT", TRUE, cur), Cmd("RESUME", resumeOk, cur) >>,
          done |-> t + l1 + ResumeSettle + l2]

Outcome(session, sig, cmds, done) ==
    [session |-> session, sig |-> sig, cmds |-> cmds, done |-> done]

\* check_and_manage at time t, on the session cur and the schedule outs; the
\* outcomes and the durations of the commands it may send are given.  Yields
\* the session after the call, the commands sent and the time of return.
CheckAndManage(cur, outs, t, pauseOk, parkOk, heatOk, resumeOk, l1, l2) ==
    LET sig == GetNextDangerWindow(outs, t)
    IN  IF ShouldPause(sig.must_act, cur.paused)
        THEN LET held == AfterPause(pauseOk, cur, t + l1, sig.window)
             IN  IF pauseOk
                 THEN Outcome(AfterPark(parkOk, held), sig,
                              << Cmd("PAUSE", TRUE, cur),
                                 Cmd("PARK", parkOk, held) >>,
                              t + l1 + PauseSettle + l2)
                 ELSE Outcome(held, sig, << Cmd("PAUSE", FALSE, cur) >>,
                              t + l1)
        ELSE IF cur.paused
        THEN IF WaitOver(t, cur.start)
             THEN LET r == ResumePrint(heatOk, resumeOk, cur, t, l1, l2)
                  IN  Outcome(AfterResume(r.ok, cur, r.done), sig, r.cmds, r.done)
             ELSE Outcome(cur, sig, << >>, t)
        ELSE Outcome(cur, sig, << >>, t)

\* the command that failed in an evaluation that sent cmds
Failure(cmds) ==
    IF cmds = << >> \/ cmds[Len(cmds)].ok THEN "none"
    ELSE IF cmds[1].cmd = "PAUSE"
         THEN (IF Len(cmds) = 1 THEN "pause" ELSE "park")
         ELSE "resume"

\* an evaluation that sent cmds resumed, or paused, with success
Resumed(cmds) == Len(cmds) = 2 /\ cmds[2].cmd = "RESUME" /\ cmds[2].ok

Paused(cmds) == cmds # << >> /\ cmds[1].cmd = "PAUSE" /\ cmds[1].ok

\* One iteration of the while loop of run_daemon: the midnight refresh when
\* it is due, check_and_manage, time.sleep(CHECK_INTERVAL).
Iteration(res, lf, pauseOk, parkOk, heatOk, resumeOk, l1, l2) ==
    LET due  == now >= next_update
        t    == IF due THEN now + lf ELSE now
        outs == IF due THEN FetchedOutages(res) ELSE outages
        cur  == Session(is_paused, pause_start_time, current_outage)
    IN  \E r \in {CheckAndManage(cur, outs, t, pauseOk, parkOk, heatOk,
                                 resumeOk, l1, l2)} :
          /\ outages' = outs
          /\ last_update' = IF due THEN FetchedLastUpdate(res, t)
                                   ELSE last_update
          /\ next_update' = IF due THEN GetNextMidnight(t) ELSE next_update
          /\ is_paused' = r.session.paused
          /\ pause_start_time' = r.session.start
          /\ current_outage' = r.session.outage
          /\ ev' = [at |-> t, sig |-> r.sig, pre |-> cur, cmds |-> r.cmds,
                    fetched |-> IF ~due THEN "no"
                                ELSE IF res.ok THEN "ok" ELSE "failed",
                    prev_fail |-> Failure(ev.cmds),
                    prev_resume |-> IF Resumed(ev.cmds) THEN ev.at ELSE None,
                    prev_pause |-> Paused(ev.cmds)]
          /\ now' = r.done + CHECK_INTERVAL

\* The outcomes that can make a difference to an iteration: those of the
\* requests it sends.
Only(S, used) == IF used THEN S ELSE {CHOOSE x \in S : TRUE}

\* The iterations of the loop, the results of the commands of a resume
\* attempt being drawn from results.
LoopBody(results) ==
       \E res \in Only(FetchResult, now >= next_update),
          lf \in Only(ShortLatency, now >= next_update) :
         LET due  == now >= next_update
             t    == IF due THEN now + lf ELSE now
             outs == IF due THEN FetchedOutages(res) ELSE outages
             act  == GetNextDangerWindow(outs, t).must_act
             pausing  == ShouldPause(act, is_paused)
             resuming == ~pausing /\ is_paused
                            /\ WaitOver(t, pause_start_time)
         IN  \E pauseOk \in Only(BOOLEAN, pausing),
                heatOk \in Only(results, resuming),
                l1 \in IF resuming THEN Latency ELSE ShortLatency :
               \E parkOk \in Only(BOOLEAN, pausing /\ pauseOk),
                  resumeOk \in Only(results, resuming /\ heatOk),
                  l2 \in Only(Latency, (pausing /\ pauseOk)
                                           \/ (resuming /\ heatOk)) :
                 Iteration(res, lf, pauseOk, parkOk, heatOk, resumeOk,
                           l1, l2)

LoopIteration ==
    /\ pc = "loop"
    /\ polls < MaxPolls
    /\ LoopBody(BOOLEAN)
    /\ polls' = polls + 1
    /\ pc' = "loop"
    /\ UNCHANGED parse

Next == DaemonStart \/ LoopIteration

Spec == Init /\ [][Next]_vars

\* ------------------------------------------------ the loop that keeps running
\* The resume attempt does not fail forever: after two attempts in a row
\* that failed, the commands of the next attempt succeed.
ResumeResults ==
    IF Failure(ev.cmds) = "resume" /\ ev.prev_fail = "resume"
    THEN {TRUE} ELSE BOOLEAN

\* the iterations a pause that started within MaxPolls needs to come to its
\* end: those of the wait, two failed attempts and the one that succeeds
Overtime == WAIT_AFTER + 3

\* The loop goes on past MaxPolls for as long as a pause is open.
LiveIteration ==
    /\ pc = "loop"
    /\ polls < MaxPolls \/ (is_paused /\ polls < MaxPolls + Overtime)
    /\ LoopBody(ResumeResults)
    /\ polls' = polls + 1
    /\ pc' = "loop"
    /\ UNCHANGED parse

LiveNext == DaemonStart \/ LiveIteration

\* the daemon started in the afternoon, or late in the evening
InitLive == Init /\ now \in {15 * 3600 + 50 * 60, 22 * 3600 + 49 * 60}

\* while True with time.sleep(CHECK_INTERVAL): an iteration that can be
\* taken is taken
LiveSpec == InitLive /\ [][LiveNext]_vars /\ WF_vars(LiveNext)

\* ------------------------------------------------------- main with "once"
\* seconds between the end of an invocation and the start of the next
OnceGaps == {CHECK_INTERVAL, 5 * CHECK_INTERVAL}

\* mutant: the manager of the invocation before is used again
FreshSession_Persisted ==
    Session(is_paused, pause_start_time, current_outage)

\* PrinterPowerManager.__init__: the session of a new manager
FreshSession == Session(FALSE, None, NoWindow)

InitOnce ==
    /\ now \in StartTimes
    /\ pc = "once"
    /\ polls = 0
    /\ outages = EmptyOutages
    /\ last_update = None
    /\ next_update = None
    /\ is_paused = FALSE
    /\ pause_start_time = None
    /\ current_outage = NoWindow
    /\ ev = NoEval
    /\ parse = NoParse

\* main: sys.argv[1] == "once", manager = PrinterPowerManager(); the
\* variables of the manager are those of the new process.
OnceStart ==
    /\ pc = "once"
    /\ polls < MaxRuns
    /\ \E gap \in OnceGaps : now' = IF polls = 0 THEN now ELSE now + gap
    /\ outages' = EmptyOutages
    /\ last_update' = None
    /\ is_paused' = FreshSession.paused
    /\ pause_start_time' = FreshSession.start
    /\ current_outage' = FreshSession.outage
    /\ pc' = "run_once"
    /\ UNCHANGED <<polls, next_update, ev, parse>>

\* run_once: update_outages(), check_and_manage(), and the process ends
RunOnce ==
    /\ pc = "run_once"
    /\ \E res \in FetchResult, lf \in ShortLatency :
         LET t    == now + lf
             outs == FetchedOutages(res)
             cur  == Session(is_paused, pause_start_time, current_outage)
             pausing == ShouldPause(GetNextDangerWindow(outs, t).must_act,
                                    cur.paused)
         IN  \E pauseOk \in Only(BOOLEAN, pausing), l1 \in ShortLatency :
               \E parkOk \in Only(BOOLEAN, pausing /\ pauseOk),
                  l2 \in Only(Latency, pausing /\ pauseOk),
                  heatOk \in Only(BOOLEAN, cur.paused),
                  resumeOk \in Only(BOOLEAN, cur.paused) :
                 \E r \in {CheckAndManage(cur, outs, t, pauseOk, parkOk,
                                          heatOk, resumeOk, l1, l2)} :
                   /\ outages' = outs
                   /\ last_update' = FetchedLastUpdate(res, t)
                   /\ is_paused' = r.session.paused
                   /\ pause_start_time' = r.session.start
                   /\ current_outage' = r.session.outage
                   /\ ev' = [at |-> t, sig |-> r.sig, pre |-> cur,
                             cmds |-> r.cmds,
                             fetched |-> IF res.ok THEN "ok" ELSE "failed",
                             prev_fail |-> Failure(ev.cmds),
                             prev_resume |-> IF Resumed(ev.cmds) THEN ev.at
                                                                ELSE None,
                             prev_pause |-> Paused(ev.cmds)]
                   /\ now' = r.done
    /\ polls' = polls + 1
    /\ pc' = "once"
    /\ UNCHANGED <<next_update, parse>>

NextOnce == OnceStart \/ RunOnce

SpecOnce == InitOnce /\ [][NextOnce]_vars

\* ------------------------------------------------- _parse_slots on its own
\* _parse_slots is a static method: it is applied to any list of raw slots.
InitParse ==
    /\ now = 0
    /\ pc = "parse"
    /\ polls = 0
    /\ outages = EmptyOutages
    /\ last_update = None
    /\ next_update = None
    /\ is_paused = FALSE
    /\ pause_start_time = None
    /\ current_outage = NoWindow
    /\ ev = NoEval
    /\ parse \in {[slots |-> l, done |-> FALSE, result |-> << >>] :
                     l \in SlotLists(MaxSlots)}

Parse ==
    /\ pc = "parse"
    /\ ~parse.done
    /\ parse' = [slots |-> parse.slots, done |-> TRUE,
                 result |-> ParseSlots(parse.slots)]
    /\ UNCHANGED <<now, pc, polls, outages, last_update, next_update,
                   is_paused, pause_start_time, current_outage, ev>>

NextParse == Parse

SpecParse == InitParse /\ [][NextParse]_vars

\* ------------------------------------------------------------------ claims
Sent(name) == \E i \in DOMAIN ev.cmds : ev.cmds[i].cmd = name

\* the last step of the run was an evaluation
Evaluated == ev.at # None

\* seconds since pause_start_time at the last evaluation (it was PAUSED)
Elapsed == ev.at - ev.pre.start

SessionNow == Session(is_paused, pause_start_time, current_outage)

\* C1: no PAUSE command is sent while is_paused is true and no command of a
\* resume is sent while is_paused is false; an evaluation that finds the
\* machine PAUSED sends no PAUSE command, whatever the evaluator signals.
C1_NoPauseWhenPausedNoResumeWhenIdle ==
    /\ \A i \in DOMAIN ev.cmds :
         /\ ev.cmds[i].cmd = "PAUSE" => ~ev.cmds[i].session.paused
         /\ ev.cmds[i].cmd \in {"HEAT", "RESUME"} => ev.cmds[i].session.paused
    /\ (Evaluated /\ ev.pre.paused) => ~Sent("PAUSE")

\* C1 witness: an evaluation with must_act = true found the machine PAUSED
\* and sent nothing.
C1_Witness ==
    Evaluated /\ ev.pre.paused /\ ev.sig.must_act /\ ev.cmds = << >>

\* C2: an evaluation in state PAUSED attempts resume exactly when at least
\* WAIT_AFTER minutes have passed since pause_start_time, whatever must_act
\* is; before that it sends no command and leaves the session as it was.
C2_ResumeGating ==
    (Evaluated /\ ev.pre.paused) =>
        /\ Sent("HEAT") <=> Elapsed >= WAIT_AFTER * 60
        /\ Elapsed < WAIT_AFTER * 60 =>
               ev.cmds = << >> /\ SessionNow = ev.pre

\* C2 witness: resume is attempted exactly WAIT_AFTER minutes after the pause
\* while the evaluator still signals must_act.
C2_Witness ==
    /\ Evaluated /\ ev.pre.paused /\ ev.sig.must_act
    /\ Elapsed = WAIT_AFTER * 60
    /\ Sent("HEAT")

\* C3: a failed resume leaves the machine PAUSED with pause_start_time and
\* current_outage as they were, and the evaluation after a failed resume
\* attempts resume again.
C3_RetryWithoutReset ==
    /\ (Evaluated /\ Failure(ev.cmds) = "resume") =>
           /\ Elapsed >= WAIT_AFTER * 60
           /\ is_paused
           /\ pause_start_time = ev.pre.start
           /\ current_outage = ev.pre.outage
    /\ (Evaluated /\ ev.prev_fail = "resume") =>
           /\ ev.pre.paused
           /\ Elapsed >= WAIT_AFTER * 60
           /\ Sent("HEAT")

\* C3 witness: two resume attempts in a row failed.
C3_Witness ==
    /\ Evaluated /\ ev.prev_fail = "resume"
    /\ Failure(ev.cmds) = "resume"
    /\ is_paused

\* C4: a failed PAUSE command leaves the machine IDLE with the session as it
\* was, no park command is sent in that evaluation, and the evaluation after
\* it sends PAUSE again when the evaluator signals must_act.
C4_PauseFailureStaysIdle ==
    /\ (Evaluated /\ Failure(ev.cmds) = "pause") =>
           /\ ~is_paused
           /\ SessionNow = ev.pre
           /\ ~Sent("PARK")
    /\ (Evaluated /\ ev.prev_fail = "pause" /\ ev.sig.must_act) =>
           ev.cmds # << >> /\ ev.cmds[1].cmd = "PAUSE"

\* C4 witness: a PAUSE that failed is sent again by the next evaluation.
C4_Witness ==
    /\ Evaluated /\ ev.prev_fail = "pause" /\ ev.sig.must_act
    /\ Sent("PAUSE")
    /\ ~ev.pre.paused

\* C5: when PAUSE succeeded, the park command is sent with the machine
\* already PAUSED and pause_start_time and current_outage recorded, and the
\* session after the evaluation is that one whether or not park succeeded.
C5_ParkFailureKeepsPause ==
    \A i \in DOMAIN ev.cmds :
        ev.cmds[i].cmd = "PARK" =>
            /\ i = 2 /\ ev.cmds[1].cmd = "PAUSE" /\ ev.cmds[1].ok
            /\ ev.cmds[i].session.paused
            /\ ev.cmds[i].session.start # None
            /\ ev.cmds[i].session.start >= ev.at
            /\ ev.cmds[i].session.outage = ev.sig.window
            /\ ev.sig.window # NoWindow
            /\ SessionNow = ev.cmds[i].session

\* C5 witness: the park command failed after a successful PAUSE and the
\* machine is PAUSED.
C5_Witness ==
    /\ Evaluated /\ Failure(ev.cmds) = "park"
    /\ is_paused /\ pause_start_time # None /\ current_outage # NoWindow

\* the interval a window name stands for, in minutes
LabelStart(w) == w[1] * 60 + w[2]

LabelEnd(w) == w[3] * 60 + w[4]

\* the list the last evaluation looked at, and its current_hour in minutes
EvalList == OutagesGet(outages, GetCurrentPeriod(ev.at))

EvalMinute == CurrentMinute(ev.at)

TodayList == OutagesGet(outages, "today")

TomorrowList == OutagesGet(outages, "tomorrow")

\* C6: for every interval of today's schedule (fetched this day), an
\* evaluation made at or after the interval's pause point and before its
\* start, whose PAUSE command (if any) succeeded and which did not resume,
\* leaves the machine PAUSED.
C6_PausedFromPausePoint ==
    (/\ Evaluated
     /\ last_update # None
     /\ last_update \div DaySecs = ev.at \div DaySecs
     /\ Failure(ev.cmds) # "pause"
     /\ ~Sent("HEAT")) =>
        \A i \in DOMAIN TodayList :
            (/\ TodayList[i][1] - WAIT_BEFORE <= EvalMinute
             /\ EvalMinute < TodayList[i][1]) => is_paused

\* C7 as claimed: a RESUME command is sent only at a time outside
\* [start, end) of the interval that triggered the pause and of every
\* interval of the current period's list.
C7_ResumeOnlyAfterOutage ==
    Sent("RESUME") =>
        /\ ~(/\ LabelStart(ev.pre.outage) <= EvalMinute
             /\ EvalMinute < LabelEnd(ev.pre.outage))
        /\ \A i \in DOMAIN EvalList :
             ~(EvalList[i][1] <= EvalMinute /\ EvalMinute < EvalList[i][2])

\* C7 amended: the commands of a resume are sent only while PAUSED and once
\* at least WAIT_AFTER minutes have passed since pause_start_time; the
\* interval that triggered the pause need not have ended.
C7_ResumeOnlyAfterWait ==
    \A i \in DOMAIN ev.cmds :
        ev.cmds[i].cmd \in {"HEAT", "RESUME"} =>
            /\ ev.cmds[i].session.paused
            /\ ev.cmds[i].session.start # None
            /\ ev.at - ev.cmds[i].session.start >= WAIT_AFTER * 60

\* C7 witness: RESUME is sent inside the interval that triggered the pause.
C7_Witness ==
    /\ Sent("RESUME")
    /\ LabelStart(ev.pre.outage) <= EvalMinute
    /\ EvalMinute < LabelEnd(ev.pre.outage)

\* C8: an evaluation in hour 23, at or within one minute before 24:00 minus
\* WAIT_BEFORE, with tomorrow's first interval starting at 00:00, looks at
\* tomorrow's list and signals must_act for that interval.
C8_LookaheadCoversMidnight ==
    (/\ Evaluated
     /\ Hour(ev.at) = 23
     /\ WAIT_BEFORE > 0
     /\ TomorrowList # << >>
     /\ TomorrowList[1][1] = 0
     /\ EvalMinute >= 24 * 60 - WAIT_BEFORE - 1
     /\ EvalMinute <= 24 * 60 - WAIT_BEFORE) =>
        /\ EvalList = TomorrowList
        /\ ev.sig.must_act
        /\ ev.sig.window = WindowName(TomorrowList[1][1], TomorrowList[1][2])

\* the first interval of the list that has not ended at minute cm, or 0
FirstPending(list, cm) ==
    IF \E i \in DOMAIN list : list[i][2] > cm
    THEN CHOOSE i \in DOMAIN list :
             /\ list[i][2] > cm
             /\ \A j \in DOMAIN list : list[j][2] > cm => i <= j
    ELSE 0

\* C9: when the first interval that has not ended has its pause point ahead
\* of current_hour, must_act is true exactly when the pause point is at most
\* one minute ahead.
C9_ImminentThreshold ==
    (Evaluated /\ FirstPending(EvalList, EvalMinute) # 0) =>
        LET start == EvalList[FirstPending(EvalList, EvalMinute)][1]
            ahead == (start - WAIT_BEFORE) - EvalMinute
        IN  ahead > 0 => (ev.sig.must_act <=> ahead <= 1)

\* the scenario of C10: the single window 16:00-19:00 today
C10_Scenario ==
    Evaluated /\ TodayList = << <<16 * 60, 19 * 60>> >> /\ WAIT_BEFORE = 5

At(h, m, sec) == ev.at % DaySecs = h * 3600 + m * 60 + sec

\* C10 as claimed: at 15:54:30 minutes_until_pause is 0.5 (twice it is 1)
\* and must_act is true; at 15:50 it is 5.0 and must_act is false.
C10_SecondsCounted ==
    /\ (C10_Scenario /\ At(15, 54, 30)) =>
           /\ ev.sig.must_act
           /\ 2 * ev.sig.minutes = 1
    /\ (C10_Scenario /\ At(15, 50, 0)) =>
           /\ ~ev.sig.must_act
           /\ (16 * 60 - WAIT_BEFORE) - EvalMinute = 5

\* C10 amended: the seconds are dropped: at 15:54:30 minutes_until_pause is
\* 1.0 for the window 16:00-19:00 and must_act is true; at 15:50 it is 5.0,
\* must_act is false and no window or minutes are returned.
C10_SecondsDropped ==
    /\ (C10_Scenario /\ At(15, 54, 30)) =>
           /\ ev.sig.must_act
           /\ ev.sig.minutes = 1
           /\ ev.sig.window = <<16, 0, 19, 0>>
    /\ (C10_Scenario /\ At(15, 50, 0)) =>
           /\ ev.sig = Signal(FALSE, NoWindow, None)
           /\ (16 * 60 - WAIT_BEFORE) - EvalMinute = 5

\* C10 witness: the evaluation of 15:54:30 signalled must_act.
C10_Witness ==
    C10_Scenario /\ At(15, 54, 30) /\ ev.sig.must_act /\ ~ev.pre.paused

\* the window name of an interval <<start, end>> given in minutes
Label(iv) == <<iv[1] \div 60, iv[1] % 60, iv[2] \div 60, iv[2] % 60>>

\* C11: for an interval of the selected list whose earlier intervals have
\* all ended, an evaluation with pause_point <= current_hour < end returns
\* must_act = true, the interval's label and minutes = (end - current_hour)
\* * 60.
C11_InsideWindowSignal ==
    Evaluated =>
        \A i \in DOMAIN EvalList :
            (/\ \A j \in 1..(i - 1) : EvalList[j][2] <= EvalMinute
             /\ EvalList[i][1] - WAIT_BEFORE <= EvalMinute
             /\ EvalMinute < EvalList[i][2]) =>
                ev.sig = Signal(TRUE, Label(EvalList[i]),
                                EvalList[i][2] - EvalMinute)

\* the list is in chronological order and its intervals do not overlap
Chronological(list) ==
    /\ \A i \in DOMAIN list : list[i][1] < list[i][2]
    /\ \A i \in DOMAIN list : \A j \in DOMAIN list :
           i < j => list[i][2] <= list[j][1]

\* C12: on a chronological list, a signal with must_act = true names the
\* first interval in stored order whose end is greater than current_hour.
C12_NamesFirstPending ==
    (Evaluated /\ Chronological(EvalList) /\ ev.sig.must_act) =>
        /\ FirstPending(EvalList, EvalMinute) # 0
        /\ ev.sig.window =
               Label(EvalList[FirstPending(EvalList, EvalMinute)])

\* C13: a fetch that fails leaves both interval lists and last_update
\* exactly as they were.
C13_StaleOnFailure ==
    [][ev'.fetched = "failed" =>
           (outages' = outages /\ last_update' = last_update)]_vars

\* C13 witness: the midnight refresh failed and the schedule fetched at
\* startup is still there.
C13_Witness ==
    /\ Evaluated /\ ev.fetched = "failed"
    /\ last_update # None
    /\ TodayList # << >>

\* the indices of the slots of type Definite, and the k-th of them
Definite(slots) ==
    {i \in DOMAIN slots :
        "type" \in DOMAIN slots[i] /\ slots[i]["type"] = "Definite"}

Nth(S, k) == CHOOSE i \in S : Cardinality({j \in S : j <= i}) = k

\* C14: the parsed list has one entry for every slot of type Definite and
\* none for any other slot, in the order of the slots, the k-th entry being
\* (start / 60, end / 60) of the k-th Definite slot.
C14_ParseKeepsDefiniteInOrder ==
    parse.done =>
        LET def == Definite(parse.slots)
        IN  /\ Len(parse.result) = Cardinality(def)
            /\ \A k \in 1..Cardinality(def) :
                 LET slot == parse.slots[Nth(def, k)]
                 IN  parse.result[k] =
                        << [num |-> SlotGet(slot, "start", 0), den |-> 60],
                           [num |-> SlotGet(slot, "end", 0), den |-> 60] >>

\* C14 witness: a list with a slot of another type between two Definite
\* slots has been parsed to the two of them.
C14_Witness ==
    /\ parse.done
    /\ Len(parse.slots) = 3
    /\ Definite(parse.slots) = {1, 3}
    /\ Len(parse.result) = 2
    /\ parse.result[1] # parse.result[2]

\* C15: with the loop running and resume not failing forever, a paused
\* machine becomes idle again: from the evaluation at which the wait is
\* over, every evaluation of a paused machine starts a resume attempt, and
\* the attempt that succeeds leaves the session cleared.
C15_PausedLeadsToIdle ==
    /\ is_paused ~> ~is_paused
    /\ [](Evaluated /\ ev.pre.paused
            /\ ev.at - ev.pre.start >= WAIT_AFTER * 60
            => ev.cmds # << >> /\ ev.cmds[1].cmd = "HEAT")
    /\ [](Evaluated /\ Resumed(ev.cmds)
            => SessionNow = Session(FALSE, None, NoWindow))

\* C15 witness: a resume succeeded at the evaluation after one that failed.
C15_Witness ==
    /\ Evaluated /\ Resumed(ev.cmds)
    /\ ev.prev_fail = "resume"
    /\ ~is_paused

\* the midnight that follows time t is m
NextMidnightAfter(t, m) == m % DaySecs = 0 /\ t < m /\ m - t <= DaySecs

\* C16: the schedule is fetched at startup, before any evaluation; a loop
\* iteration fetches if and only if its time has reached next_update, and
\* then, the fetch having succeeded or not, next_update becomes the
\* midnight that follows; no other iteration fetches or moves next_update.
C16_FetchOncePerMidnight ==
    [][/\ pc = "start" =>
            /\ ev'.fetched # "no" /\ ev'.at = None
            /\ NextMidnightAfter(now', next_update')
       /\ pc = "loop" =>
            /\ ev'.fetched # "no" <=> now >= next_update
            /\ ev'.fetched = "no" => next_update' = next_update
            /\ NextMidnightAfter(ev'.at, next_update')]_vars

\* C16 witness: the startup fetch and the refresh at midnight both failed,
\* next_update is the midnight of the day after, and the iteration that
\* followed the refresh did not fetch.
C16_Witness ==
    /\ Evaluated /\ ev.fetched = "no"
    /\ next_update = 2 * DaySecs
    /\ last_update = None

\* C17: RESUME is only ever sent second, after a heat-up command of the
\* same attempt that succeeded and after the settle delay; a heat-up that
\* succeeded is followed by RESUME; and the attempt counts as a success,
\* clearing the session, exactly when both commands succeeded.
C17_HeatSettleResume ==
    Evaluated =>
        /\ \A i \in DOMAIN ev.cmds :
             ev.cmds[i].cmd = "RESUME" =>
                /\ i = 2
                /\ ev.cmds[1].cmd = "HEAT" /\ ev.cmds[1].ok
                /\ now - ev.at >= ResumeSettle + CHECK_INTERVAL
        /\ (ev.cmds # << >> /\ ev.cmds[1].cmd = "HEAT") =>
             /\ ev.cmds[1].ok =>
                  Len(ev.cmds) = 2 /\ ev.cmds[2].cmd = "RESUME"
             /\ (ev.pre.paused /\ ~is_paused)
                  <=> (Len(ev.cmds) = 2 /\ ev.cmds[1].ok /\ ev.cmds[2].ok)

\* C17 witness: the heat-up succeeded, RESUME was sent and failed, and the
\* machine is still paused.
C17_Witness ==
    /\ Evaluated /\ Len(ev.cmds) = 2
    /\ ev.cmds[1].cmd = "HEAT" /\ ev.cmds[1].ok
    /\ ev.cmds[2].cmd = "RESUME" /\ ~ev.cmds[2].ok
    /\ is_paused

\* C18: the three fields of the session are set together or not at all;
\* an evaluation changes them only by a PAUSE that succeeded, which sets
\* all three, or by a resume that succeeded, which clears all three.
C18_SessionConsistent ==
    /\ is_paused <=> pause_start_time # None
    /\ is_paused <=> current_outage # NoWindow
    /\ Evaluated =>
         /\ SessionNow # ev.pre => Paused(ev.cmds) \/ Resumed(ev.cmds)
         /\ Paused(ev.cmds) => ~ev.pre.paused /\ is_paused
         /\ Resumed(ev.cmds) => ev.pre.paused /\ ~is_paused

\* C18 witness: a session was opened, closed by a resume, and a new one has
\* been opened by the evaluation that followed.
C18_Witness ==
    /\ Evaluated /\ Paused(ev.cmds)
    /\ ev.prev_resume # None
    /\ is_paused /\ pause_start_time # None /\ current_outage # NoWindow

\* minute m of the day is inside the pause-to-end span of interval iv
InSpan(m, iv) == iv[1] - WAIT_BEFORE <= m /\ m < iv[2]

\* C19: when the evaluation before this one resumed with success and that
\* evaluation and this one both fall inside the pause-to-end span of one
\* interval of today's schedule (fetched this day), this evaluation sends a
\* PAUSE command.
C19_RepausesInsideWindow ==
    (/\ Evaluated
     /\ ev.prev_resume # None
     /\ last_update # None
     /\ last_update \div DaySecs = ev.at \div DaySecs
     /\ last_update \div DaySecs = ev.prev_resume \div DaySecs) =>
        \A i \in DOMAIN TodayList :
            (/\ InSpan(CurrentMinute(ev.prev_resume), TodayList[i])
             /\ InSpan(EvalMinute, TodayList[i])) => Sent("PAUSE")

\* C20: an invocation with once starts from a new manager in state IDLE,
\* fetches, and evaluates once; over any sequence of invocations no command
\* of a resume is ever sent, and every invocation whose evaluation signals
\* must_act sends a PAUSE command.
C20_OnceNeverResumes ==
    /\ pc = "run_once" =>
         /\ SessionNow = Session(FALSE, None, NoWindow)
         /\ outages = EmptyOutages /\ last_update = None
    /\ Evaluated =>
         /\ ev.pre = Session(FALSE, None, NoWindow)
         /\ ev.fetched # "no"
         /\ \A i \in DOMAIN ev.cmds : ev.cmds[i].cmd \in {"PAUSE", "PARK"}
         /\ ev.sig.must_act => ev.cmds # << >> /\ ev.cmds[1].cmd = "PAUSE"

\* C20 witness: two invocations in a row each sent a PAUSE command that
\* succeeded.
C20_Witness ==
    /\ pc = "once" /\ Evaluated
    /\ Paused(ev.cmds) /\ ev.prev_pause
    /\ ev.sig.must_act

====
